---------------------------- MODULE Spec2Model ----------------------------
(***************************************************************************)
(* State-machine model of greeDos.py: the AttackSimulator (start, stop and *)
(* its FloodThread workers), the ForensicAnalyzer event queue, the         *)
(* ProtocolAnalyzer sniffing thread, the AlertDetector and the Dashboard   *)
(* display loop.  Every thread is modelled by a program counter; a step of *)
(* the model is one shared-memory access of the thread (plus the local     *)
(* computation that follows it).                                           *)
(***************************************************************************)
EXTENDS Integers, Sequences, FiniteSets, TLC

(***************************************************************************)
(* Program constants.                                                      *)
(***************************************************************************)
ALERT_THRESHOLD == 100

maxlen == 50

DashboardCount == 5

(***************************************************************************)
(* Bounds of the exploration.                                              *)
(***************************************************************************)
\* largest --threads
MaxWorkers == 2

\* largest --duration, in seconds
MaxDuration == 1

\* ticks the clock makes in a run
MaxTime == 2

\* rounds of the FloodThreads' loop in a run from construction
MaxRequests == 2

\* events appended before the sniffing thread stops capturing
MaxEvents == 2

\* packet numbers drawn by random.randint(1, 1000)
MaxPacketId == 2

\* how far the counter goes beyond ALERT_THRESHOLD
MaxOver == 2

\* events appended when the queue is filled beyond maxlen
MaxAppends == 51

\* alerts registered before the display loop's cycles of SpecRender
MaxAlerts == 6

(***************************************************************************)
(* The clock counts half seconds; strftime("%Y-%m-%d %H:%M:%S") keeps the  *)
(* whole seconds only.                                                     *)
(***************************************************************************)
TicksPerSecond == 2

VARIABLES
    threads,        \* AttackSimulator.threads
    duration,       \* AttackSimulator.duration (seconds)
    running,        \* AttackSimulator.running
    requests_sent,  \* AttackSimulator.requests_sent
    lock,           \* AttackSimulator.lock: its holder, or Unlocked
    spc,            \* position of the thread that runs AttackSimulator.start
    thread_list,    \* start(): number of FloodThreads started so far
    joined,         \* start(): number of FloodThreads joined so far
    wpc,            \* position of each FloodThread in simulate_http_flood
    wtmp,           \* value a FloodThread loaded for requests_sent += 1
    end_time,       \* simulate_http_flood's local end_time, per FloodThread
    now,            \* the wall clock, in ticks
    event_queue,    \* ForensicAnalyzer.event_queue
    db,             \* rows of the events table of osint_tool.db
    lpc,            \* position of each producer inside log_event
    lev,            \* the event a producer is logging
    alerts,         \* AlertDetector.alerts
    dpc,            \* position of the Dashboard.display loop
    req_count,      \* check_for_alerts' local req_count
    view,           \* what render_dashboard returned to display
    mpc,            \* position of ProtocolAnalyzer.start_sniffing
    dummy_packet,   \* start_sniffing's local dummy_packet
    incs,           \* history: number of increment steps the workers performed
    appended,       \* history: every event appended to event_queue, in order
    stopped,        \* history: stop() was called while start() was running
    after_stop      \* history: increments of each worker after that call

vars == << threads, duration, running, requests_sent, lock, spc, thread_list,
           joined, wpc, wtmp, end_time, now, event_queue, db, lpc, lev, alerts,
           dpc, req_count, view, mpc, dummy_packet, incs, appended, stopped,
           after_stop >>

simVars == << threads, duration, running, requests_sent, lock, spc,
              thread_list, joined, wpc, wtmp, end_time, incs, stopped,
              after_stop >>

logVars == << event_queue, db, lpc, lev, appended >>

dashVars == << alerts, dpc, req_count, view >>

monVars == << mpc, dummy_packet >>

Workers == 1..threads

\* wpc, wtmp, end_time, incs and after_stop have an entry for every thread
\* the largest configuration has; start() never touches those above threads
AllWorkers == 1..MaxWorkers

\* holders of AttackSimulator.lock
Unlocked == << "unlocked", 0 >>

FloodThread(w) == << "FloodThread", w >>

MainThread == << "MainThread", 0 >>

Producers == {"monitor", "dashboard"}

NoEvent == [timestamp |-> -1, event_type |-> "", details |-> << >>]

NoView == [requests |-> -1, log |-> << >>, alerts |-> << >>]

(***************************************************************************)
(* Pure helpers.                                                           *)
(***************************************************************************)
Min(a, b) == IF a < b THEN a ELSE b

Max(a, b) == IF a < b THEN b ELSE a

\* datetime.now().strftime("%Y-%m-%d %H:%M:%S"): the clock cut to whole seconds
strftime(t) == t \div TicksPerSecond

\* the slice s[:-start], the oldest items, for a negative start
PySliceOldest(s, start) == SubSeq(s, 1, Min(0 - start, Len(s)))

\* Python's s[start:] on a list
PySliceFrom(s, start) ==
    LET L == Len(s)
        lo == IF start < 0 THEN Max(L + start, 0) ELSE Min(start, L)
    IN  SubSeq(s, lo + 1, L)

\* a deque without maxlen
DequeUnbounded(q, e) == Append(q, e)

\* a full deque that drops its rightmost item
DequeDropsNewest(q, e) ==
    IF Len(q) >= maxlen THEN Append(SubSeq(q, 1, Len(q) - 1), e)
    ELSE Append(q, e)

\* deque(maxlen=50).append(e): a full deque drops its leftmost item
DequeAppend(q, e) ==
    IF Len(q) >= maxlen THEN Append(Tail(q), e) ELSE Append(q, e)

\* ForensicAnalyzer.get_recent_events(count)
get_recent_events(q, count) == PySliceFrom(q, -count)

\* a message that embeds the threshold instead of the count
AlertMsgOfThreshold(v) ==
    << "High traffic alert: ", ALERT_THRESHOLD, " requests sent!" >>

\* f"High traffic alert: {req_count} requests sent!"
AlertMsg(v) == << "High traffic alert: ", v, " requests sent!" >>

\* a membership test that never finds the message
NeverInList(x, s) == FALSE

\* alert_msg in self.alerts
InList(x, s) == \E i \in 1..Len(s) : s[i] = x

(***************************************************************************)
(* The state after main() has constructed the modules.                     *)
(***************************************************************************)
Init ==
    /\ threads \in 1..MaxWorkers
    /\ duration \in 1..MaxDuration
    /\ running = FALSE
    /\ requests_sent = 0
    /\ lock = Unlocked
    /\ spc = "idle"
    /\ thread_list = 0
    /\ joined = 0
    /\ wpc = [w \in AllWorkers |-> "unstarted"]
    /\ wtmp = [w \in AllWorkers |-> 0]
    /\ end_time = [w \in AllWorkers |-> 0]
    /\ now = 0
    /\ event_queue = << >>
    /\ db = << >>
    /\ lpc = [p \in Producers |-> "none"]
    /\ lev = [p \in Producers |-> NoEvent]
    /\ alerts = << >>
    /\ dpc = "check"
    /\ req_count = 0
    /\ view = NoView
    /\ mpc = "sleep"
    /\ dummy_packet = 0
    /\ incs = 0
    /\ appended = << >>
    /\ stopped = FALSE
    /\ after_stop = [w \in AllWorkers |-> 0]


(***************************************************************************)
(* The wall clock.                                                         *)
(***************************************************************************)
Tick ==
    /\ now' = now + 1
    /\ UNCHANGED << simVars, logVars, dashVars, monVars >>

(***************************************************************************)
(* log_event_to_db: INSERT INTO events, commit.  The insert can raise      *)
(* (sqlite3.OperationalError); then no row is written.                     *)
(***************************************************************************)
log_event_to_db(rows, event_type, details) ==
    Append(rows, [event_type |-> event_type, details |-> details])

(***************************************************************************)
(* AttackSimulator.simulate_http_flood, run by FloodThread w.              *)
(***************************************************************************)
\* end_time = time.time() + self.duration
WorkerBegin(w) ==
    /\ wpc[w] = "begin"
    /\ end_time' = [end_time EXCEPT ![w] = now + duration * TicksPerSecond]
    /\ wpc' = [wpc EXCEPT ![w] = "loop"]
    /\ UNCHANGED << threads, duration, running, requests_sent, lock, spc,
                    thread_list, joined, wtmp, incs, stopped, after_stop >>
    /\ UNCHANGED << now, logVars, dashVars, monVars >>

\* a loop that tests the flag only
LoopIgnoresDeadline(w) == running

\* a loop that tests the deadline only
LoopIgnoresRunning(w) == now < end_time[w]

\* while time.time() < end_time and self.running
LoopCondition(w) == now < end_time[w] /\ running

\* the condition holds: time.sleep(0.05 + random.uniform(0, 0.1))
WorkerEnter(w) ==
    /\ wpc[w] = "loop"
    /\ LoopCondition(w)
    /\ wpc' = [wpc EXCEPT ![w] = "sleep"]
    /\ UNCHANGED << threads, duration, running, requests_sent, lock, spc,
                    thread_list, joined, wtmp, end_time, incs, stopped,
                    after_stop >>
    /\ UNCHANGED << now, logVars, dashVars, monVars >>

\* the condition fails: leave the loop
WorkerExit(w) ==
    /\ wpc[w] = "loop"
    /\ ~LoopCondition(w)
    /\ wpc' = [wpc EXCEPT ![w] = "finish"]
    /\ UNCHANGED << threads, duration, running, requests_sent, lock, spc,
                    thread_list, joined, wtmp, end_time, incs, stopped,
                    after_stop >>
    /\ UNCHANGED << now, logVars, dashVars, monVars >>

\* a lock whose acquire never blocks
LockNeverBlocks == TRUE

\* threading.Lock.acquire: blocks until the lock is free
LockFree == lock = Unlocked

\* the sleep ends; with self.lock:
WorkerAcquire(w) ==
    /\ wpc[w] = "sleep"
    /\ LockFree
    /\ lock' = FloodThread(w)
    /\ wpc' = [wpc EXCEPT ![w] = "load"]
    /\ UNCHANGED << threads, duration, running, requests_sent, spc,
                    thread_list, joined, wtmp, end_time, incs, stopped,
                    after_stop >>
    /\ UNCHANGED << now, logVars, dashVars, monVars >>

\* self.requests_sent += 1: the load
WorkerLoad(w) ==
    /\ wpc[w] = "load"
    /\ wtmp' = [wtmp EXCEPT ![w] = requests_sent]
    /\ wpc' = [wpc EXCEPT ![w] = "store"]
    /\ UNCHANGED << threads, duration, running, requests_sent, lock, spc,
                    thread_list, joined, end_time, incs, stopped, after_stop >>
    /\ UNCHANGED << now, logVars, dashVars, monVars >>

\* self.requests_sent += 1: the add and the store
WorkerStore(w) ==
    /\ wpc[w] = "store"
    /\ requests_sent' = wtmp[w] + 1
    /\ wpc' = [wpc EXCEPT ![w] = "unlock"]
    /\ incs' = incs + 1
    /\ after_stop' = [after_stop EXCEPT ![w] = IF stopped THEN @ + 1 ELSE @]
    /\ UNCHANGED << threads, duration, running, lock, spc, thread_list,
                    joined, wtmp, end_time, stopped >>
    /\ UNCHANGED << now, logVars, dashVars, monVars >>

\* leaving the with block releases the lock
WorkerRelease(w) ==
    /\ wpc[w] = "unlock"
    /\ lock' = Unlocked
    /\ wpc' = [wpc EXCEPT ![w] = "loop"]
    /\ UNCHANGED << threads, duration, running, requests_sent, spc,
                    thread_list, joined, wtmp, end_time, incs, stopped,
                    after_stop >>
    /\ UNCHANGED << now, logVars, dashVars, monVars >>

\* a FloodThread whose failed insert ends the whole run
WorkerFinishStopsRun(w) ==
    /\ wpc[w] = "finish"
    /\ \/ db' = log_event_to_db(db, "SIMULATION", << >>) /\ running' = running
       \/ db' = db /\ running' = FALSE
    /\ wpc' = [wpc EXCEPT ![w] = "dead"]
    /\ UNCHANGED << event_queue, lpc, lev, appended >>
    /\ UNCHANGED << threads, duration, requests_sent, lock, spc,
                    thread_list, joined, wtmp, end_time, incs, stopped,
                    after_stop >>
    /\ UNCHANGED << now, dashVars, monVars >>

\* log_event_to_db("SIMULATION", "One simulation thread has finished.")
\* and the thread ends; if the insert raises, the thread ends by the exception
WorkerFinish(w) ==
    /\ wpc[w] = "finish"
    /\ \/ db' = log_event_to_db(db, "SIMULATION", << >>)
       \/ db' = db
    /\ wpc' = [wpc EXCEPT ![w] = "dead"]
    /\ UNCHANGED << event_queue, lpc, lev, appended >>
    /\ UNCHANGED << threads, duration, running, requests_sent, lock, spc,
                    thread_list, joined, wtmp, end_time, incs, stopped,
                    after_stop >>
    /\ UNCHANGED << now, dashVars, monVars >>

(***************************************************************************)
(* AttackSimulator.start, run by AttackSimulatorThread, and stop.          *)
(***************************************************************************)
\* self.running = True
StartBegin ==
    /\ spc = "idle"
    /\ running' = TRUE
    /\ spc' = "spawn"
    /\ UNCHANGED << threads, duration, requests_sent, lock, thread_list,
                    joined, wpc, wtmp, end_time, incs, stopped, after_stop >>
    /\ UNCHANGED << now, logVars, dashVars, monVars >>

\* one round of: t = threading.Thread(...); t.start(); thread_list.append(t)
StartSpawn ==
    /\ spc = "spawn"
    /\ thread_list < threads
    /\ wpc' = [wpc EXCEPT ![thread_list + 1] = "begin"]
    /\ thread_list' = thread_list + 1
    /\ spc' = IF thread_list + 1 = threads THEN "join" ELSE "spawn"
    /\ UNCHANGED << threads, duration, running, requests_sent, lock, joined,
                    wtmp, end_time, incs, stopped, after_stop >>
    /\ UNCHANGED << now, logVars, dashVars, monVars >>

\* a join that returns at once
StartJoinNoWait ==
    /\ spc = "join"
    /\ joined < thread_list
    /\ joined' = joined + 1
    /\ UNCHANGED << threads, duration, running, requests_sent, lock, spc,
                    thread_list, wpc, wtmp, end_time, incs, stopped,
                    after_stop >>
    /\ UNCHANGED << now, logVars, dashVars, monVars >>

\* one round of: t.join(), which returns once the thread has ended
StartJoin ==
    /\ spc = "join"
    /\ joined < thread_list
    /\ wpc[joined + 1] = "dead"
    /\ joined' = joined + 1
    /\ UNCHANGED << threads, duration, running, requests_sent, lock, spc,
                    thread_list, wpc, wtmp, end_time, incs, stopped,
                    after_stop >>
    /\ UNCHANGED << now, logVars, dashVars, monVars >>

\* start resets the counter when it returns
StartReturnResets ==
    /\ spc = "join"
    /\ joined = thread_list
    /\ running' = FALSE
    /\ requests_sent' = 0
    /\ spc' = "returned"
    /\ UNCHANGED << threads, duration, lock, thread_list, joined, wpc, wtmp,
                    end_time, incs, stopped, after_stop >>
    /\ UNCHANGED << now, logVars, dashVars, monVars >>

\* self.running = False, and start returns
StartReturn ==
    /\ spc = "join"
    /\ joined = thread_list
    /\ running' = FALSE
    /\ spc' = "returned"
    /\ UNCHANGED << threads, duration, requests_sent, lock, thread_list,
                    joined, wpc, wtmp, end_time, incs, stopped, after_stop >>
    /\ UNCHANGED << now, logVars, dashVars, monVars >>

\* AttackSimulator.stop, called from outside at any moment
Stop ==
    /\ running' = FALSE
    /\ stopped' = (stopped \/ spc \in {"spawn", "join"})
    /\ UNCHANGED << threads, duration, requests_sent, lock, spc, thread_list,
                    joined, wpc, wtmp, end_time, incs, after_stop >>
    /\ UNCHANGED << now, logVars, dashVars, monVars >>

(***************************************************************************)
(* ForensicAnalyzer.log_event, called by producer p (the sniffing thread   *)
(* or the display loop).  The timestamp is read first, the append to the   *)
(* deque and the database insert are later steps of the caller.            *)
(***************************************************************************)
\* timestamp = datetime.now().strftime(...); event = {...}
LogCall(p, event_type, details) ==
    /\ lev' = [lev EXCEPT ![p] = [timestamp |-> strftime(now),
                                  event_type |-> event_type,
                                  details |-> details]]
    /\ lpc' = [lpc EXCEPT ![p] = "append"]

\* self.event_queue.append(event)
LogAppend(p) ==
    /\ lpc[p] = "append"
    /\ event_queue' = DequeAppend(event_queue, lev[p])
    /\ appended' = Append(appended, lev[p])
    /\ lpc' = [lpc EXCEPT ![p] = "db"]
    /\ UNCHANGED << db, lev >>
    /\ UNCHANGED << now, simVars, dashVars, monVars >>

\* log_event_to_db(event_type, details) returns, and so does log_event
LogDb(p) ==
    /\ lpc[p] = "db"
    /\ db' = log_event_to_db(db, lev[p].event_type, lev[p].details)
    /\ lpc' = [lpc EXCEPT ![p] = "none"]
    /\ lev' = [lev EXCEPT ![p] = NoEvent]
    /\ UNCHANGED << event_queue, appended >>
    /\ UNCHANGED << now, simVars, dashVars, monVars >>

\* log_event_to_db raises: nothing catches it, the calling thread's loop ends
LogDbRaise(p) ==
    /\ lpc[p] = "db"
    /\ lpc' = [lpc EXCEPT ![p] = "none"]
    /\ lev' = [lev EXCEPT ![p] = NoEvent]
    /\ mpc' = IF p = "monitor" THEN "crashed" ELSE mpc
    /\ dpc' = IF p = "dashboard" THEN "crashed" ELSE dpc
    /\ UNCHANGED << event_queue, db, appended >>
    /\ UNCHANGED << alerts, req_count, view, dummy_packet >>
    /\ UNCHANGED << now, simVars >>

(***************************************************************************)
(* ProtocolAnalyzer.start_sniffing, run by ProtocolAnalyzerThread.         *)
(***************************************************************************)
\* f"Captured {dummy_packet}" with dummy_packet = f"Packet-{n}"
CapturedDetails(n) == << "Captured Packet-", n >>

\* an alert text that names a fixed packet
SuspiciousDetailsOfFirst(n) == << "Suspicious packet detected: Packet-", 1 >>

\* f"Suspicious packet detected: {packet}"
SuspiciousDetails(n) == << "Suspicious packet detected: Packet-", n >>

\* the sleep ends; dummy_packet = f"Packet-{random.randint(1,1000)}";
\* self.analyzer.log_event("PACKET", ...)
MonitorCapture(n) ==
    /\ mpc = "sleep"
    /\ lpc["monitor"] = "none"
    /\ dummy_packet' = n
    /\ LogCall("monitor", "PACKET", CapturedDetails(n))
    /\ mpc' = "analyze"
    /\ UNCHANGED << event_queue, db, appended >>
    /\ UNCHANGED << now, simVars, dashVars >>

\* analyze_packet: random.random() < 0.05, log_event("PROTOCOL_ALERT", ...)
MonitorAnomaly ==
    /\ mpc = "analyze"
    /\ lpc["monitor"] = "none"
    /\ LogCall("monitor", "PROTOCOL_ALERT", SuspiciousDetails(dummy_packet))
    /\ mpc' = "sleep"
    /\ UNCHANGED << event_queue, db, appended, dummy_packet >>
    /\ UNCHANGED << now, simVars, dashVars >>

\* analyze_packet: random.random() >= 0.05
MonitorNoAnomaly ==
    /\ mpc = "analyze"
    /\ lpc["monitor"] = "none"
    /\ mpc' = "sleep"
    /\ UNCHANGED << now, simVars, logVars, dashVars, dummy_packet >>

(***************************************************************************)
(* Dashboard.display, run by the main thread: check_for_alerts,            *)
(* render_dashboard, print, sleep.                                         *)
(***************************************************************************)
\* a test that also fires at the threshold
ReachesThreshold(v) == v >= ALERT_THRESHOLD

\* if req_count > ALERT_THRESHOLD
Exceeds(v) == v > ALERT_THRESHOLD

\* a check_for_alerts that reads the counter without taking the lock
CheckAcquireNoLock ==
    /\ dpc = "check"
    /\ dpc' = "check_read"
    /\ UNCHANGED << now, simVars, logVars, monVars, alerts, req_count, view >>

\* check_for_alerts: with self.simulator.lock:
CheckAcquire ==
    /\ dpc = "check"
    /\ LockFree
    /\ lock' = MainThread
    /\ dpc' = "check_read"
    /\ UNCHANGED << threads, duration, running, requests_sent, spc,
                    thread_list, joined, wpc, wtmp, end_time, incs, stopped,
                    after_stop >>
    /\ UNCHANGED << now, logVars, monVars, alerts, req_count, view >>

\* req_count = self.simulator.requests_sent
CheckRead ==
    /\ dpc = "check_read"
    /\ req_count' = requests_sent
    /\ dpc' = "check_unlock"
    /\ UNCHANGED << now, simVars, logVars, monVars, alerts, view >>

\* the lock is released; the two tests on the local req_count follow.
\* Without an alert to add, check_for_alerts returns self.alerts.
CheckRelease ==
    /\ dpc = "check_unlock"
    /\ lock' = Unlocked
    /\ IF Exceeds(req_count) /\ ~InList(AlertMsg(req_count), alerts)
          THEN dpc' = "alert"
          ELSE dpc' = "render"
    /\ UNCHANGED << threads, duration, running, requests_sent, spc,
                    thread_list, joined, wpc, wtmp, end_time, incs, stopped,
                    after_stop >>
    /\ UNCHANGED << now, logVars, monVars, alerts, req_count, view >>

\* a check_for_alerts that puts the new alert in front
CheckAlertPrepends ==
    /\ dpc = "alert"
    /\ alerts' = << AlertMsg(req_count) >> \o alerts
    /\ LogCall("dashboard", "TRAFFIC_ALERT", AlertMsg(req_count))
    /\ dpc' = "render"
    /\ UNCHANGED << event_queue, db, appended >>
    /\ UNCHANGED << now, simVars, monVars, req_count, view >>

\* self.alerts.append(alert_msg); self.analyzer.log_event("TRAFFIC_ALERT", ...)
CheckAlert ==
    /\ dpc = "alert"
    /\ alerts' = Append(alerts, AlertMsg(req_count))
    /\ LogCall("dashboard", "TRAFFIC_ALERT", AlertMsg(req_count))
    /\ dpc' = "render"
    /\ UNCHANGED << event_queue, db, appended >>
    /\ UNCHANGED << now, simVars, monVars, req_count, view >>

\* render_dashboard: with self.simulator.lock:
RenderAcquire ==
    /\ dpc = "render"
    /\ lpc["dashboard"] = "none"
    /\ LockFree
    /\ lock' = MainThread
    /\ dpc' = "render_read"
    /\ UNCHANGED << threads, duration, running, requests_sent, spc,
                    thread_list, joined, wpc, wtmp, end_time, incs, stopped,
                    after_stop >>
    /\ UNCHANGED << now, logVars, monVars, alerts, req_count, view >>

\* table.add_row("Requests Sent", str(self.simulator.requests_sent))
RenderRead ==
    /\ dpc = "render_read"
    /\ view' = [view EXCEPT !.requests = requests_sent]
    /\ dpc' = "render_unlock"
    /\ UNCHANGED << now, simVars, logVars, monVars, alerts, req_count >>

\* the lock is released
RenderRelease ==
    /\ dpc = "render_unlock"
    /\ lock' = Unlocked
    /\ dpc' = "render_events"
    /\ UNCHANGED << threads, duration, running, requests_sent, spc,
                    thread_list, joined, wpc, wtmp, end_time, incs, stopped,
                    after_stop >>
    /\ UNCHANGED << now, logVars, monVars, alerts, req_count, view >>

\* recent_events = self.analyzer.get_recent_events(5);
\* alerts = self.detector.alerts[-5:]; return table, log_panel, alert_panel
RenderEvents ==
    /\ dpc = "render_events"
    /\ view' = [view EXCEPT
                  !.log = get_recent_events(event_queue, DashboardCount),
                  !.alerts = PySliceFrom(alerts, -DashboardCount)]
    /\ dpc' = "print"
    /\ UNCHANGED << now, simVars, logVars, monVars, alerts, req_count >>

\* live.update, console.print, await asyncio.sleep(2)
DisplaySleep ==
    /\ dpc = "print"
    /\ view' = NoView
    /\ dpc' = "check"
    /\ UNCHANGED << now, simVars, logVars, monVars, alerts, req_count >>

(***************************************************************************)
(* The entry point: asyncio.run(main(args)) inside try / except            *)
(* KeyboardInterrupt.  AttackSimulatorThread and the FloodThreads are      *)
(* non-daemon threads, ProtocolAnalyzerThread is a daemon thread.          *)
(***************************************************************************)
\* the display loop is running
InDisplay == dpc \notin {"crashed", "shutdown", "exited"}

\* Ctrl-C while the main thread is in Dashboard.display: the exception
\* unwinds the loop (a with block releases the lock, a log_event under way is
\* abandoned), the handler logs "Tool terminated by user." and calls
\* sys.exit(0), which starts the interpreter's shutdown
KeyboardInterrupt ==
    /\ InDisplay
    /\ lock' = IF lock = MainThread THEN Unlocked ELSE lock
    /\ lpc' = [lpc EXCEPT !["dashboard"] = "none"]
    /\ lev' = [lev EXCEPT !["dashboard"] = NoEvent]
    /\ view' = NoView
    /\ dpc' = "shutdown"
    /\ UNCHANGED << threads, duration, running, requests_sent, spc,
                    thread_list, joined, wpc, wtmp, end_time, incs, stopped,
                    after_stop >>
    /\ UNCHANGED << now, event_queue, db, appended, alerts, req_count, monVars >>

\* the non-daemon threads the interpreter's shutdown waits for have ended
NonDaemonEnded ==
    /\ spc = "returned"
    /\ \A w \in AllWorkers : wpc[w] \in {"unstarted", "dead"}

\* the interpreter's shutdown joins every non-daemon thread, then the process
\* ends with status 0; the daemon thread is not waited for
ProcessExit ==
    /\ dpc = "shutdown"
    /\ NonDaemonEnded
    /\ dpc' = "exited"
    /\ UNCHANGED << now, simVars, logVars, monVars, alerts, req_count, view >>

(***************************************************************************)
(* Next-state relations.  The run is bounded in the guards: a FloodThread  *)
(* starts another round only while fewer than reqCap requests are sent or  *)
(* under way, the sniffing thread captures another packet only while fewer *)
(* than evCap events were appended, the clock ticks only before maxNow.    *)
(***************************************************************************)
InBody == Cardinality({w \in Workers :
                          wpc[w] \in {"sleep", "load", "store", "unlock"}})

ClockNext(maxNow) == now < maxNow /\ Tick

\* start() up to the last FloodThread's first statement
SpawnNext ==
    \/ StartBegin
    \/ StartSpawn
    \/ \E w \in AllWorkers : WorkerBegin(w)

\* the FloodThreads' loop and the joins of start()
LoopNext(reqCap) ==
    \/ StartJoin
    \/ StartReturn
    \/ \E w \in AllWorkers :
          \/ requests_sent + InBody < reqCap /\ WorkerEnter(w)
          \/ WorkerExit(w)
          \/ WorkerAcquire(w)
          \/ WorkerLoad(w)
          \/ WorkerStore(w)
          \/ WorkerRelease(w)
          \/ WorkerFinish(w)

\* the same with stop() called from outside
RunNext(reqCap) ==
    \/ Stop
    \/ LoopNext(reqCap)

SimNext(reqCap) ==
    \/ SpawnNext
    \/ RunNext(reqCap)

MonNext(evCap) ==
    \/ \E n \in 1..MaxPacketId : Len(appended) < evCap /\ MonitorCapture(n)
    \/ MonitorAnomaly
    \/ MonitorNoAnomaly

LogNext ==
    \E p \in Producers :
       \/ LogAppend(p)
       \/ LogDb(p)
       \/ LogDbRaise(p)

\* check_for_alerts without the branch that adds an alert
CheckNext ==
    \/ CheckAcquire
    \/ CheckRead
    \/ CheckRelease

\* the display loop without the branch of check_for_alerts that adds an alert
PollNext ==
    \/ CheckNext
    \/ RenderAcquire
    \/ RenderRead
    \/ RenderRelease
    \/ RenderEvents
    \/ DisplaySleep

DashNext ==
    \/ PollNext
    \/ CheckAlert

(***************************************************************************)
(* Spec: a run from construction, the FloodThreads, start, stop and the    *)
(* display loop polling the counter.  Within MaxRequests the counter stays *)
(* below ALERT_THRESHOLD, so no alert is added and nothing is logged.      *)
(***************************************************************************)
Next ==
    \/ ClockNext(MaxTime)
    \/ SimNext(MaxRequests)
    \/ PollNext

Spec == Init /\ [][Next]_vars

(***************************************************************************)
(* SpecAlert: the same threads from a state in the middle of a run, all    *)
(* FloodThreads started and in their loop, the counter one below           *)
(* ALERT_THRESHOLD and nothing logged yet.                                 *)
(***************************************************************************)
InitAlert ==
    /\ threads \in 1..MaxWorkers
    /\ duration \in 1..MaxDuration
    /\ running = TRUE
    /\ requests_sent = ALERT_THRESHOLD - 1
    /\ lock = Unlocked
    /\ spc = "join"
    /\ thread_list = threads
    /\ joined = 0
    /\ wpc = [w \in AllWorkers |-> IF w \in Workers THEN "loop" ELSE "unstarted"]
    /\ wtmp = [w \in AllWorkers |-> 0]
    /\ end_time = [w \in AllWorkers |->
                     IF w \in Workers THEN duration * TicksPerSecond ELSE 0]
    /\ now = 0
    /\ event_queue = << >>
    /\ db = << >>
    /\ lpc = [p \in Producers |-> "none"]
    /\ lev = [p \in Producers |-> NoEvent]
    /\ alerts = << >>
    /\ dpc = "check"
    /\ req_count = 0
    /\ view = NoView
    /\ mpc = "sleep"
    /\ dummy_packet = 0
    /\ incs = ALERT_THRESHOLD - 1
    /\ appended = << >>
    /\ stopped = FALSE
    /\ after_stop = [w \in AllWorkers |-> 0]

NextAlert ==
    \/ ClockNext(MaxTime)
    \/ RunNext(ALERT_THRESHOLD + MaxOver)
    \/ DashNext
    \/ LogNext

SpecAlert == InitAlert /\ [][NextAlert]_vars

(***************************************************************************)
(* SpecStamp and SpecLog: the producers of the event queue, from a state   *)
(* in which start() has returned with the counter one above                *)
(* ALERT_THRESHOLD and nothing is logged yet: the sniffing thread and the  *)
(* display loop, whose next check_for_alerts adds an alert.  SpecStamp     *)
(* lets the clock run over a few events; SpecLog fills the queue beyond    *)
(* maxlen within one clock tick, with every packet named Packet-1 and none *)
(* found suspicious, while the display loop runs up to its first           *)
(* render_dashboard.                                                       *)
(***************************************************************************)
InitLog ==
    /\ threads = MaxWorkers
    /\ duration = MaxDuration
    /\ running = FALSE
    /\ requests_sent = ALERT_THRESHOLD + 1
    /\ lock = Unlocked
    /\ spc = "returned"
    /\ thread_list = threads
    /\ joined = threads
    /\ wpc = [w \in AllWorkers |-> "dead"]
    /\ wtmp = [w \in AllWorkers |-> 0]
    /\ end_time = [w \in AllWorkers |-> duration * TicksPerSecond]
    /\ now = duration * TicksPerSecond
    /\ event_queue = << >>
    /\ db = [w \in AllWorkers |-> [event_type |-> "SIMULATION", details |-> << >>]]
    /\ lpc = [p \in Producers |-> "none"]
    /\ lev = [p \in Producers |-> NoEvent]
    /\ alerts = << >>
    /\ dpc = "check"
    /\ req_count = 0
    /\ view = NoView
    /\ mpc = "sleep"
    /\ dummy_packet = 0
    /\ incs = ALERT_THRESHOLD + 1
    /\ appended = << >>
    /\ stopped = FALSE
    /\ after_stop = [w \in AllWorkers |-> 0]

NextStamp ==
    \/ ClockNext(MaxDuration * TicksPerSecond + MaxTime)
    \/ MonNext(MaxEvents)
    \/ LogNext
    \/ DashNext

SpecStamp == InitLog /\ [][NextStamp]_vars

NextLog ==
    \/ Len(appended) < MaxAppends /\ MonitorCapture(1)
    \/ MonitorNoAnomaly
    \/ LogNext
    \/ CheckNext
    \/ CheckAlert

SpecLog == InitLog /\ [][NextLog]_vars

(***************************************************************************)
(* SpecStop: Spec with the scheduling the threads get.  Every FloodThread  *)
(* and the thread of start() keep running when they can; the display loop  *)
(* holds the lock for two short reads every two seconds, so a FloodThread  *)
(* that waits for the lock gets it.  Nothing is assumed of the clock, of   *)
(* stop() or of a FloodThread entering another round.                      *)
(***************************************************************************)
Fairness ==
    /\ WF_vars(StartSpawn)
    /\ WF_vars(StartJoin)
    /\ WF_vars(StartReturn)
    /\ WF_vars(PollNext)
    /\ \A w \in AllWorkers :
          /\ WF_vars(WorkerBegin(w))
          /\ WF_vars(WorkerExit(w))
          /\ SF_vars(WorkerAcquire(w))
          /\ WF_vars(WorkerLoad(w))
          /\ WF_vars(WorkerStore(w))
          /\ WF_vars(WorkerRelease(w))
          /\ WF_vars(WorkerFinish(w))

SpecStop == Init /\ [][Next]_vars /\ Fairness

(***************************************************************************)
(* SpecDeadline: a run in which nobody calls stop(), with the scheduling   *)
(* of SpecStop, a thread of start() that gets to run, and a clock that     *)
(* advances: it ticks up to MaxTime and, past that, as long as a           *)
(* FloodThread in its loop has its deadline ahead.                         *)
(***************************************************************************)
DeadlinePending ==
    \E w \in AllWorkers :
       /\ wpc[w] \in {"loop", "sleep", "load", "store", "unlock"}
       /\ now < end_time[w]

DeadlineClock == (now < MaxTime \/ DeadlinePending) /\ Tick

NextDeadline ==
    \/ DeadlineClock
    \/ SpawnNext
    \/ LoopNext(MaxRequests)
    \/ PollNext

SpecDeadline ==
    /\ Init /\ [][NextDeadline]_vars
    /\ Fairness
    /\ WF_vars(StartBegin)
    /\ WF_vars(DeadlineClock)

(***************************************************************************)
(* SpecRender: cycles of the display loop after a run in which the         *)
(* counter ended at ALERT_THRESHOLD + MaxAlerts and check_for_alerts has   *)
(* read and registered every count above the threshold, all within the     *)
(* first second: MaxAlerts alerts, as many TRAFFIC_ALERT events and        *)
(* rows, then one SIMULATION row per FloodThread.  The sniffing thread     *)
(* logs a few packets meanwhile.                                           *)
(***************************************************************************)
TrafficAlert(i) ==
    [timestamp |-> strftime(0), event_type |-> "TRAFFIC_ALERT",
     details |-> AlertMsg(ALERT_THRESHOLD + i)]

InitRender ==
    /\ threads = MaxWorkers
    /\ duration = MaxDuration
    /\ running = FALSE
    /\ requests_sent = ALERT_THRESHOLD + MaxAlerts
    /\ lock = Unlocked
    /\ spc = "returned"
    /\ thread_list = threads
    /\ joined = threads
    /\ wpc = [w \in AllWorkers |-> "dead"]
    /\ wtmp = [w \in AllWorkers |-> 0]
    /\ end_time = [w \in AllWorkers |-> duration * TicksPerSecond]
    /\ now = duration * TicksPerSecond
    /\ event_queue = [i \in 1..MaxAlerts |-> TrafficAlert(i)]
    /\ db = [i \in 1..MaxAlerts |->
               [event_type |-> "TRAFFIC_ALERT",
                details |-> AlertMsg(ALERT_THRESHOLD + i)]]
            \o [w \in AllWorkers |->
                  [event_type |-> "SIMULATION", details |-> << >>]]
    /\ lpc = [p \in Producers |-> "none"]
    /\ lev = [p \in Producers |-> NoEvent]
    /\ alerts = [i \in 1..MaxAlerts |-> AlertMsg(ALERT_THRESHOLD + i)]
    /\ dpc = "check"
    /\ req_count = ALERT_THRESHOLD + MaxAlerts
    /\ view = NoView
    /\ mpc = "sleep"
    /\ dummy_packet = 0
    /\ incs = ALERT_THRESHOLD + MaxAlerts
    /\ appended = [i \in 1..MaxAlerts |-> TrafficAlert(i)]
    /\ stopped = FALSE
    /\ after_stop = [w \in AllWorkers |-> 0]

NextRender ==
    \/ MonNext(MaxAlerts + MaxEvents)
    \/ LogAppend("monitor")
    \/ LogDb("monitor")
    \/ LogDbRaise("monitor")
    \/ PollNext

SpecRender == InitRender /\ [][NextRender]_vars

(***************************************************************************)
(* SpecExit: Spec with Ctrl-C at any moment of the display loop.  Nothing  *)
(* runs once the process has ended.                                        *)
(***************************************************************************)
NextExit ==
    \/ dpc # "exited" /\ Next
    \/ KeyboardInterrupt
    \/ ProcessExit

SpecExit == Init /\ [][NextExit]_vars

(***************************************************************************)
(* Properties.                                                             *)
(***************************************************************************)
\* the last n items of s
LastN(s, n) == SubSeq(s, Len(s) - n + 1, Len(s))

\* number of alerts whose message embeds the count v
Referring(v) == Cardinality({i \in 1..Len(alerts) : alerts[i][2] = v})

\* check_for_alerts has decided what to do with the count it read
Decided == dpc \in {"render", "render_read", "render_unlock", "render_events",
                    "print", "crashed"}

\* C1: when start() has returned, requests_sent equals the number of
\* increment steps the FloodThreads performed, whatever the interleaving of
\* the workers with each other and with the reads of the display loop
C1_NoLostIncrement == spc = "returned" => requests_sent = incs

\* two workers have incremented, the display loop has read the counter in
\* between, and start() has returned
C1_Witness ==
    /\ spc = "returned"
    /\ threads >= 2
    /\ incs >= 2
    /\ view.requests = 1

\* C2: requests_sent is a non-negative integer in every state and no step
\* of any thread makes it smaller
C2_NeverDecreases ==
    /\ [](requests_sent \in Nat)
    /\ [][requests_sent' >= requests_sent]_vars

C2_Witness ==
    /\ spc = "returned"
    /\ stopped
    /\ requests_sent = 2
    /\ dpc = "print"

\* C3: the timestamps of the events in event_queue never decrease in queue
\* order, with the sniffing thread and the display loop both logging
C3_TimestampsOrdered ==
    \A i \in 1..(Len(event_queue) - 1) :
       event_queue[i].timestamp <= event_queue[i + 1].timestamp

\* C4: event_queue never holds more than 50 events, whatever the
\* interleaving of the log_event calls of the sniffing thread and of
\* check_for_alerts
C4_AtMostMaxlen == Len(event_queue) <= 50

C4_Witness ==
    /\ Len(appended) > maxlen
    /\ Len(event_queue) = maxlen
    /\ \E i \in 1..Len(event_queue) : event_queue[i].event_type = "TRAFFIC_ALERT"
    /\ \E i \in 1..Len(event_queue) : event_queue[i].event_type = "PACKET"

\* C5: after k appends to the empty queue it holds the last min(k, 50)
\* appended events in append order; after 51 appends
\* get_recent_events(50) is the appended events 2..51 in append order
C5_FifoEviction ==
    /\ event_queue = LastN(appended, Min(Len(appended), maxlen))
    /\ Len(appended) = maxlen + 1 =>
          get_recent_events(event_queue, maxlen) = SubSeq(appended, 2, maxlen + 1)

C5_Witness ==
    /\ Len(appended) = maxlen + 1
    /\ appended[1].event_type = "TRAFFIC_ALERT"
    /\ \A i \in 1..Len(event_queue) : event_queue[i].event_type = "PACKET"

\* C6: for every count n >= 0, n = 0 included, get_recent_events(n) is the
\* newest min(n, length) events of the queue, oldest first
C6_RecentReturnsMin ==
    \A n \in 0..(maxlen + 1) :
       get_recent_events(event_queue, n)
          = LastN(event_queue, Min(n, Len(event_queue)))

\* C7: once check_for_alerts has dealt with a count v above the threshold,
\* exactly one alert refers to v, however often v was read; a call that reads
\* a count whose message is registered adds nothing, any call adds at most
\* one alert, and the one it adds refers to the count it read
C7_OneAlertPerValue ==
    /\ []((Decided /\ req_count > ALERT_THRESHOLD) => Referring(req_count) = 1)
    /\ [][/\ (dpc = "check_unlock" /\ Referring(req_count) > 0) => alerts' = alerts
          /\ alerts' # alerts =>
                alerts' = Append(alerts, alerts'[Len(alerts')])
                /\ alerts'[Len(alerts')][2] = req_count]_vars

\* a second call in succession has read the count of the newest of two alerts
C7_Witness ==
    /\ dpc = "check_unlock"
    /\ Len(alerts) = 2
    /\ alerts[1][2] = ALERT_THRESHOLD + 1
    /\ alerts[2][2] = ALERT_THRESHOLD + 2
    /\ req_count = ALERT_THRESHOLD + 2
    /\ lpc["dashboard"] = "none"

\* C8: a check_for_alerts that reads a count <= ALERT_THRESHOLD, the
\* threshold itself included, adds no alert, logs no event and returns the
\* alert list as it was
C8_NoAlertAtOrBelow ==
    [][(dpc = "check_unlock" /\ req_count <= ALERT_THRESHOLD) =>
          /\ dpc' \in {"check_unlock", "render"}
          /\ alerts' = alerts
          /\ appended' = appended
          /\ lpc'["dashboard"] = "none"]_vars

C8_Witness ==
    /\ dpc = "render"
    /\ req_count = ALERT_THRESHOLD
    /\ alerts = << >>
    /\ appended = << >>

\* C9: no two entries of alerts have the same message text
C9_NoDuplicateAlerts ==
    \A i, j \in 1..Len(alerts) : i # j => alerts[i] # alerts[j]

C9_Witness ==
    /\ Len(alerts) = 2
    /\ requests_sent = ALERT_THRESHOLD + 2
    /\ view.alerts = alerts
    /\ spc = "join"

\* C10: once stop() was called while start() was running, every FloodThread
\* leaves its loop at its next test of the flag, increments the counter at
\* most once more, and start() returns, whether or not the deadline passes
C10_StopEndsRun ==
    /\ [](\A w \in Workers : after_stop[w] <= 1)
    /\ [][\A w \in Workers :
            (stopped /\ wpc[w] = "loop" /\ wpc'[w] # "loop") => wpc'[w] = "finish"]_vars
    /\ stopped ~> (spc = "returned")

C10_Witness ==
    /\ stopped
    /\ spc = "returned"
    /\ \E w \in Workers : after_stop[w] = 1 /\ now < end_time[w]

\* number of events of type t in the sequence s
CountOf(s, t) == Cardinality({i \in 1..Len(s) : s[i].event_type = t})

\* C11: when start() has returned, by the deadline or by stop(), the
\* in-memory event_queue holds exactly one SIMULATION event per FloodThread
C11_OneSimulationEventEach ==
    spc = "returned" => CountOf(event_queue, "SIMULATION") = threads

\* C12: a failed database insert of log_event is recovered inside log_event:
\* it ends neither the sniffing loop nor the display loop
C12_SinkFailureRecovered == mpc # "crashed" /\ dpc # "crashed"

\* C13: start() has started exactly self.threads FloodThreads, and once it
\* has returned every one of them has ended: none can still increment
C13_ReturnsAfterAllEnded ==
    /\ thread_list <= threads
    /\ \A w \in AllWorkers : wpc[w] # "unstarted" <=> w <= thread_list
    /\ spc \in {"join", "returned"} => thread_list = threads
    /\ spc = "returned" =>
          /\ joined = threads
          /\ \A w \in Workers : wpc[w] = "dead"

\* two FloodThreads have incremented and run to their deadlines, and
\* start() has joined both and returned
C13_Witness ==
    /\ spc = "returned"
    /\ threads = 2
    /\ joined = 2
    /\ incs = 2
    /\ ~stopped

\* C14: once Ctrl-C has interrupted the display loop the process can end at
\* once: its exit waits for no FloodThread, not for start() and not for the
\* sniffing thread, also when a FloodThread has not reached its deadline
C14_ExitsAtOnce == dpc = "shutdown" => ENABLED ProcessExit

\* C15: when stop() is never called, with fair scheduling and an advancing
\* clock, every FloodThread leaves its loop only with its deadline passed,
\* every FloodThread ends, and start() returns
C15_DeadlineEndsRun ==
    /\ [][\A w \in Workers :
            (wpc[w] = "loop" /\ wpc'[w] = "finish") => now >= end_time[w]]_vars
    /\ <>(spc = "returned" /\ \A w \in Workers : wpc[w] = "dead")

\* two FloodThreads with different deadlines have both incremented and run
\* out of time, and start() has returned
C15_Witness ==
    /\ spc = "returned"
    /\ ~stopped
    /\ threads = 2
    /\ end_time[1] < end_time[2]
    /\ now >= end_time[2]
    /\ incs = 2

\* FloodThreads that have ended
Ended == {w \in Workers : wpc[w] = "dead"}

\* the completion insert of some ended FloodThread has raised
WriteFailed == CountOf(db, "SIMULATION") < Cardinality(Ended)

\* C16: a FloodThread that ends by an exception of its completion insert
\* ends alone: no FloodThread past its loop holds the lock, the step that
\* ends a FloodThread leaves the flag, the lock, the counter and every other
\* FloodThread as they were, and after a failed insert start() still joins
\* every FloodThread and returns
C16_FailureEndsOneWorker ==
    /\ [](\A w \in Workers :
            wpc[w] \in {"finish", "dead"} => lock # FloodThread(w))
    /\ [][\A w \in Workers :
            (wpc[w] = "finish" /\ wpc'[w] = "dead") =>
               /\ running' = running
               /\ lock' = lock
               /\ requests_sent' = requests_sent
               /\ \A v \in Workers \ {w} : wpc'[v] = wpc[v]]_vars
    /\ WriteFailed ~> (spc = "returned" /\ joined = threads)

\* the first FloodThread has ended by a failed insert; the second, with a
\* later deadline, is in the middle of an increment
C16_Witness ==
    /\ threads = 2
    /\ wpc[1] = "dead"
    /\ db = << >>
    /\ wpc[2] = "store"
    /\ lock = FloodThread(2)
    /\ running

\* the threads inside a with self.lock block around the counter
InCritical ==
    {FloodThread(w) : w \in {v \in Workers : wpc[v] \in {"load", "store", "unlock"}}}
       \cup (IF dpc \in {"check_read", "check_unlock", "render_read", "render_unlock"}
                THEN {MainThread} ELSE {})

\* C17: at most one thread is inside a critical section of the counter (a
\* FloodThread's increment, the read of check_for_alerts, the read of
\* render_dashboard) and it holds the lock; so the value either read returns
\* is the counter's value while the lock is still held, and afterwards a
\* value the counter has had
C17_CounterUnderLock ==
    /\ Cardinality(InCritical) <= 1
    /\ InCritical \subseteq {lock}
    /\ dpc = "check_unlock" => req_count = requests_sent
    /\ dpc = "render_unlock" => view.requests = requests_sent
    /\ req_count \in 0..requests_sent
    /\ view.requests \in {NoView.requests} \cup 0..requests_sent

\* check_for_alerts has read the counter after an increment and holds the
\* lock while one FloodThread waits for it and the other has exited its loop
C17_Witness ==
    /\ dpc = "check_unlock"
    /\ lock = MainThread
    /\ req_count = 1
    /\ threads = 2
    /\ wpc[1] = "sleep"
    /\ wpc[2] = "finish"

\* the events the sniffing thread appends
ByMonitor(e) == e.event_type \in {"PACKET", "PROTOCOL_ALERT"}

\* C18: every PROTOCOL_ALERT ever appended comes after a PACKET event, the
\* latest event the sniffing thread appended before it is that PACKET event
\* (so there is at most one PROTOCOL_ALERT per PACKET), and both name the
\* same packet
C18_AlertFollowsItsPacket ==
    \A i \in 1..Len(appended) :
       appended[i].event_type = "PROTOCOL_ALERT" =>
          \E j \in 1..(i - 1) :
             /\ appended[j].event_type = "PACKET"
             /\ appended[j].details[2] = appended[i].details[2]
             /\ \A k \in (j + 1)..(i - 1) : ~ByMonitor(appended[k])

\* Packet-1 passed, Packet-2 was found suspicious, and the display loop's
\* TRAFFIC_ALERT went into the log between Packet-2 and its alert
C18_Witness ==
    /\ Len(appended) = 4
    /\ appended[1].details = CapturedDetails(1)
    /\ appended[2].details = CapturedDetails(2)
    /\ appended[3].event_type = "TRAFFIC_ALERT"
    /\ appended[4].event_type = "PROTOCOL_ALERT"

\* a step of render_dashboard
RenderStep ==
    /\ dpc \in {"render", "render_read", "render_unlock", "render_events"}
    /\ dpc' \in {"render_read", "render_unlock", "render_events", "print"}
    /\ dpc' # dpc

\* C19: no step of render_dashboard changes requests_sent, running,
\* event_queue (or what was ever appended or written to the database) or
\* alerts; the count it shows is the counter's value at its read under the
\* lock, and the view it returns holds that count, the last
\* min(5, length) events of event_queue in queue order and the last
\* min(5, count) alerts in list order
C19_RenderReadOnly ==
    [][/\ RenderStep =>
             /\ requests_sent' = requests_sent
             /\ running' = running
             /\ event_queue' = event_queue
             /\ appended' = appended
             /\ db' = db
             /\ alerts' = alerts
       /\ (dpc = "render_read" /\ dpc' = "render_unlock") =>
             view'.requests = requests_sent
       /\ (dpc = "render_events" /\ dpc' = "print") =>
             /\ view'.requests = view.requests
             /\ view'.log = LastN(event_queue,
                                  Min(DashboardCount, Len(event_queue)))
             /\ view'.alerts = LastN(alerts, Min(DashboardCount, Len(alerts)))]_vars

\* render_dashboard has returned a view cut to the last five of more
\* events, the newest a PACKET, and to the last five of more alerts
C19_Witness ==
    /\ dpc = "print"
    /\ Len(event_queue) = MaxAlerts + 1
    /\ Len(view.log) = DashboardCount
    /\ view.log[DashboardCount].event_type = "PACKET"
    /\ view.log[1] = event_queue[Len(event_queue) - DashboardCount + 1]
    /\ Len(alerts) = MaxAlerts
    /\ view.alerts = SubSeq(alerts, MaxAlerts - DashboardCount + 1, MaxAlerts)
    /\ view.requests = requests_sent

\* C20: every alert embeds a count above ALERT_THRESHOLD, the counts of the
\* alerts increase strictly in list order, and no step removes or changes
\* an alert: the list only grows at its end
C20_AlertsGrowInOrder ==
    /\ [](\A i \in 1..Len(alerts) : alerts[i][2] > ALERT_THRESHOLD)
    /\ [](\A i \in 1..(Len(alerts) - 1) : alerts[i][2] < alerts[i + 1][2])
    /\ [][/\ Len(alerts') >= Len(alerts)
          /\ SubSeq(alerts', 1, Len(alerts)) = alerts]_vars

\* two alerts were added while the FloodThreads ran, and start() has returned
C20_Witness ==
    /\ Len(alerts) = 2
    /\ alerts[1][2] = ALERT_THRESHOLD + 1
    /\ alerts[2][2] = ALERT_THRESHOLD + 2
    /\ spc = "returned"
    /\ dpc = "render"

=============================================================================
